---- MODULE Spec2Model ----
(***************************************************************************)
(* The module system of synthbase.py (Input, Output, Module, Synth):       *)
(* modules with named ports, wired by connect_from / disconnect, created   *)
(* and removed through the Synth, and evaluated by Synth.step / Synth.run. *)
(* Beside it the RepeatCounter that window() asks for the number of steps  *)
(* to run, and the setting widgets of a VisualModule.                      *)
(*                                                                         *)
(*   Spec         the Synth and its modules, called with valid arguments   *)
(*   SpecAnyCall  the same, the calls that are refused included            *)
(*   SpecClock    the RepeatCounter driving Synth.run                      *)
(*   SpecWidgets  the enum, text and trigger settings                      *)
(*   SpecPart     a module whose f may leave one of its Outputs unnamed    *)
(*   SpecThree    three modules created, connected and stepped             *)
(*   SpecSynths   more than one Synth object                               *)
(*                                                                         *)
(* A port is a pair <<module, name>>.  Values held by Output cells are     *)
(* small integers, None is Python's None.  A logical time is the exact     *)
(* fraction <<numerator, denominator>>.  The times the RepeatCounter       *)
(* computes with are Python floats, rounded as the interpreter rounds.     *)
(***************************************************************************)
EXTENDS Integers, Sequences, FiniteSets, TLC

\* Bounds of the model.
MaxModules == 3      \* module objects ever constructed
MaxBuilt == 2        \* of them, constructed where the host makes every kind of call
MaxCalls == 5        \* calls the host makes in one behaviour
MaxN == 2            \* largest n handed to run
MaxT == 8            \* latest time handed to the RepeatCounter, in parts of a second
MaxQueries == 3      \* queries of the RepeatCounter in one behaviour
MaxEvents == 4       \* mouse and key events handed to the setting widgets
MaxSynths == 2       \* Synth objects ever constructed

\* The t handed to step, and the <<t_from, t_to>> handed to run.
StepTimes == {0, 1}
Intervals == {<<1, 2>>}

\* Python's None in an Output's value cell (Output.__init__ sets value = None).
None == -1
\* Input.connection = None: the Input reads from no Output.
NoPort == <<0, "">>
\* Module.error = None.
NoError == "None"
\* No exception left the call.
NoRaise == ""

ModIds == 1..MaxModules
Few == 1..MaxBuilt
InNames == {"a"}
OutNames == {"o", "p"}
InPorts == ModIds \X InNames
OutPorts == ModIds \X OutNames
Values == {None, 0, 1}

(***************************************************************************)
(* Module types handed to create_module.  Each is a subclass of Module     *)
(* that declares inputs / outputs and shadows f:                           *)
(*   Src   outputs {"o": int}; f returns {"o": 1}                          *)
(*   Neg   inputs {"a": (int, 0)}, outputs {"o": int};                     *)
(*         f returns {"o": 1 - a}  (TypeError when a is None)              *)
(*   Bare  declares nothing and does not shadow f: Module.f returns None   *)
(*   Stray outputs {"o": int}; f returns {"o": 1, "zz": 1}                 *)
(*   Part  outputs {"o": int, "p": int}; f returns {"o": 1, "p": 1} at     *)
(*         t = 0 and {"o": 0} at any other t                               *)
(* and two whose declarations carry a default that is not of the declared  *)
(* type:                                                                   *)
(*   Sour  inputs {"a": (int, "x")}, outputs {"o": int}                    *)
(*   Knob  settings {"s": (int, "x")}, outputs {"o": int}                  *)
(***************************************************************************)
Kinds == {"Src", "Neg", "Bare", "Stray"}
Faulty == {"Sour", "Knob"}
NotBuilt == "none"

\* An object handed to connect_from as other_module that is no Module.
Foreign == <<0, "o">>

\* The names of the class-level inputs dict of a module type.
inputs(k) == IF k \in {"Neg", "Sour"} THEN {"a"} ELSE {}

\* The names of the class-level outputs dict, in dict (declaration) order.
outputs(k) ==
    IF k \in {"Src", "Neg", "Stray", "Sour", "Knob"} THEN <<"o">>
    ELSE IF k = "Part" THEN <<"o", "p">>
    ELSE <<>>

\* Input.default of input i of a module of type k.
default(k, i) == 0

Range(s) == {s[x] : x \in DOMAIN s}

\* Module.__init__ building every Input without looking at its default.
construct_unchecked(k) ==
    IF k = "Knob" THEN "TypeError" ELSE NoRaise

\* The exception that leaves Module.__init__ (gen_widgets) for type k:
\* Input.__init__ raises Exception on a default that is no instance of the
\* declared type; Setting(self, name, _type, default) hands Setting.__init__
\* one argument too many, a TypeError.
construct(k) ==
    IF k = "Sour" THEN "Exception"
    ELSE IF k = "Knob" THEN "TypeError"
    ELSE NoRaise

\* What f returns: a dict (its items in dict order), None, or a raised exception.
f(k, t, overall_inputs) ==
    IF k = "Src" THEN [tag |-> "dict", items |-> << <<"o", 1>> >>, exc |-> NoRaise]
    ELSE IF k = "Neg" THEN
        IF overall_inputs["a"] = None
        THEN [tag |-> "raise", items |-> <<>>, exc |-> "TypeError"]
        ELSE [tag |-> "dict", items |-> << <<"o", 1 - overall_inputs["a"]>> >>,
              exc |-> NoRaise]
    ELSE IF k = "Stray" THEN
        [tag |-> "dict", items |-> << <<"o", 1>>, <<"zz", 1>> >>, exc |-> NoRaise]
    ELSE IF k = "Part" THEN
        IF t[1] = 0
        THEN [tag |-> "dict", items |-> << <<"o", 1>>, <<"p", 1>> >>, exc |-> NoRaise]
        ELSE [tag |-> "dict", items |-> << <<"o", 0>> >>, exc |-> NoRaise]
    ELSE [tag |-> "None", items |-> <<>>, exc |-> NoRaise]

(***************************************************************************)
(* Python's float, as real_repeats computes with it: an IEEE 754 double,   *)
(* every result rounded to Precision significant bits, to nearest, ties to *)
(* the even one.  A float is [neg, mag]: mag is a whole number of          *)
(* 2^-FracBits, written as its digits to the base Base, lowest first, no   *)
(* zero at the top, <<>> for 0; neg says it is below 0.  The floats met    *)
(* here are 0 or at least 2^-7 in size and below 2^31, which makes each a  *)
(* whole number of 2^-FracBits.                                            *)
(***************************************************************************)
LimbBits == 10
Base == 2^LimbBits
FracLimbs == 6
FracBits == FracLimbs * LimbBits
Precision == 53

RECURSIVE Norm(_)
Norm(a) == IF a # <<>> /\ a[Len(a)] = 0 THEN Norm(SubSeq(a, 1, Len(a) - 1)) ELSE a

Limb(a, i) == IF i \in DOMAIN a THEN a[i] ELSE 0

\* The digits of the whole number n >= 0, and back.
RECURSIVE FromInt(_)
FromInt(n) == IF n = 0 THEN <<>> ELSE <<n % Base>> \o FromInt(n \div Base)
RECURSIVE ToInt(_)
ToInt(a) == IF a = <<>> THEN 0 ELSE a[1] + Base * ToInt(Tail(a))

\* a + b from digit i on, c carried.
RECURSIVE AddFrom(_, _, _, _)
AddFrom(a, b, i, c) ==
    IF i > Len(a) /\ i > Len(b) THEN FromInt(c)
    ELSE LET d == Limb(a, i) + Limb(b, i) + c
         IN <<d % Base>> \o AddFrom(a, b, i + 1, d \div Base)
AddN(a, b) == AddFrom(a, b, 1, 0)

\* a - b for a >= b, from digit i on, c borrowed.
RECURSIVE SubFrom(_, _, _, _)
SubFrom(a, b, i, c) ==
    IF i > Len(a) THEN <<>>
    ELSE LET d == Limb(a, i) - Limb(b, i) - c
         IN IF d < 0 THEN <<d + Base>> \o SubFrom(a, b, i + 1, 1)
            ELSE <<d>> \o SubFrom(a, b, i + 1, 0)
SubN(a, b) == Norm(SubFrom(a, b, 1, 0))

\* -1, 0, 1 as a is below, equal to, above b.
RECURSIVE CmpFrom(_, _, _)
CmpFrom(a, b, i) ==
    IF i = 0 THEN 0
    ELSE IF a[i] < b[i] THEN -1
    ELSE IF a[i] > b[i] THEN 1
    ELSE CmpFrom(a, b, i - 1)
CmpN(a, b) ==
    IF Len(a) < Len(b) THEN -1
    ELSE IF Len(a) > Len(b) THEN 1
    ELSE CmpFrom(a, b, Len(a))

\* a * r for a whole number 0 <= r < 2^20.
RECURSIVE MulFrom(_, _, _, _)
MulFrom(a, r, i, c) ==
    IF i > Len(a) THEN FromInt(c)
    ELSE LET d == a[i] * r + c
         IN <<d % Base>> \o MulFrom(a, r, i + 1, d \div Base)
MulSmall(a, r) == Norm(MulFrom(a, r, 1, 0))

\* a divided by a whole number 0 < r < 2^20: the quotient q, what is left r.
RECURSIVE DivFrom(_, _, _, _)
DivFrom(a, r, i, left) ==
    IF i = 0 THEN [q |-> <<>>, r |-> left]
    ELSE LET d == left * Base + a[i]
             low == DivFrom(a, r, i - 1, d % r)
         IN [q |-> Append(low.q, d \div r), r |-> low.r]
DivSmall(a, r) ==
    LET d == DivFrom(a, r, Len(a), 0) IN [q |-> Norm(d.q), r |-> d.r]

\* The number of bits of a.
RECURSIVE BitsOf(_)
BitsOf(n) == IF n = 0 THEN 0 ELSE 1 + BitsOf(n \div 2)
BitLen(a) == IF a = <<>> THEN 0 ELSE LimbBits * (Len(a) - 1) + BitsOf(a[Len(a)])

\* Bit j of a, the lowest being bit 0; whether a bit below bit j is set.
BitAt(a, j) == (Limb(a, j \div LimbBits + 1) \div 2^(j % LimbBits)) % 2
AnyBelow(a, j) ==
    \/ \E i \in 1..(j \div LimbBits) : Limb(a, i) # 0
    \/ Limb(a, j \div LimbBits + 1) % 2^(j % LimbBits) # 0

\* a without its lowest n bits, and a with n zero bits put below it.
ShiftRight(a, n) ==
    DivSmall(SubSeq(a, n \div LimbBits + 1, Len(a)), 2^(n % LimbBits)).q
ShiftLeft(a, n) ==
    IF a = <<>> THEN a
    ELSE [i \in 1..(n \div LimbBits) |-> 0] \o MulSmall(a, 2^(n % LimbBits))

\* a, and with sticky something more below its lowest bit, rounded to
\* Precision bits.
Round(a, sticky) ==
    LET n == BitLen(a) - Precision
    IN IF n <= 0 THEN a
       ELSE LET q == ShiftRight(a, n)
                up == /\ BitAt(a, n - 1) = 1
                      /\ AnyBelow(a, n - 1) \/ sticky \/ q[1] % 2 = 1
            IN ShiftLeft(IF up THEN AddN(q, <<1>>) ELSE q, n)

Float(neg, mag) == [neg |-> neg /\ mag # <<>>, mag |-> mag]
Zero == Float(FALSE, <<>>)

\* x + y, x - y of two floats.
float_add(x, y) ==
    IF x.neg = y.neg THEN Float(x.neg, Round(AddN(x.mag, y.mag), FALSE))
    ELSE IF CmpN(x.mag, y.mag) >= 0
    THEN Float(x.neg, Round(SubN(x.mag, y.mag), FALSE))
    ELSE Float(y.neg, Round(SubN(y.mag, x.mag), FALSE))
float_sub(x, y) == float_add(x, Float(~y.neg, y.mag))

\* x * r of a float and an int: the int is taken for the float of its value.
float_mul(x, r) ==
    Float(x.neg # (r < 0), Round(MulSmall(x.mag, IF r < 0 THEN -r ELSE r), FALSE))

\* n / r of two ints, r # 0: the float nearest to the quotient.
true_div(n, r) ==
    LET d == DivSmall([i \in 1..FracLimbs |-> 0] \o FromInt(IF n < 0 THEN -n ELSE n),
                      IF r < 0 THEN -r ELSE r)
    IN IF n = 0 THEN Zero ELSE Float((n < 0) # (r < 0), Round(d.q, d.r # 0))

\* int(x) of a float: what follows the point is cut off.
trunc(x) ==
    LET n == ToInt(SubSeq(x.mag, FracLimbs + 1, Len(x.mag)))
    IN IF x.neg THEN -n ELSE n

\* The largest whole number not above x.
floor(x) == IF x.neg /\ AnyBelow(x.mag, FracBits) THEN trunc(x) - 1 ELSE trunc(x)

\* -1, 0, 1 as x is below, equal to, above y.
float_cmp(x, y) ==
    IF x.neg # y.neg THEN (IF x.neg THEN -1 ELSE 1)
    ELSE IF x.neg THEN CmpN(y.mag, x.mag)
    ELSE CmpN(x.mag, y.mag)

(***************************************************************************)
(* RepeatCounter.  The time of a query is the float k / Scale of a whole   *)
(* number k of parts of a second; a rate is a whole number of Hz.          *)
(***************************************************************************)
Scale == 3
\* Rates below zero, zero, and above it; a step of 1/3 s or 1/10 s is no
\* float exactly, so that the arithmetic of real_repeats rounds.  run makes
\* one step for each repeat, which keeps the rates small.
Rates == {-1, 0, 3, 10}
Nows == 0..MaxT
\* The float handed to repeats for time k.
Time(k) == true_div(k, Scale)

\* RepeatCounter(rate): the attribute repeats is the method of that name
\* until the first call rebinds it.
RepeatCounter(rate) == [rate |-> rate, t_last_repeat |-> Zero, repeats |-> "repeats"]

\* No query made yet.  count is the number of queries, t / out the time and
\* the result of the last one, before the t_last_repeat it found, first the
\* time of the first one, total the sum of the results, rising whether no
\* query came with an earlier time than the one before it, steps the
\* number of steps the Synth made for them.
NoQuery ==
    [count |-> 0, t |-> 0, out |-> 0, before |-> Zero, first |-> 0, total |-> 0,
     rising |-> TRUE, steps |-> 0]

(***************************************************************************)
(* The setting widgets of one VisualModule: a VisualEnumSetting over       *)
(* Options, a VisualTextSetting and a VisualTriggerSetting.  A text value  *)
(* is the sequence of its characters.                                      *)
(***************************************************************************)
Options == <<"lo", "hi">>
Chars == {"x", "y"}
\* keyevent: its key, one of the four keypress knows or another one, and
\* its unicode, which is empty for a key that types nothing.
Keys ==
    {[key |-> k, unicode |-> <<>>] : k \in {"LEFT", "RIGHT", "BACKSPACE", "DELETE"}}
        \cup {[key |-> "OTHER", unicode |-> u] : u \in {<<>>} \cup {<<c>> : c \in Chars}}
\* The width of the rectangle get_rect gives the enum setting, and the
\* places of a click, each measured from the corner of the menu.
Width == 40
Clicks == {-10, 10, 50} \X {-30, -10, 10, 30, 50}

\* The widgets as gen_widgets makes them: ("enum", Options, 0) and
\* ("text", ""); fired counts the calls of the action of the trigger.
NewWidgets == [choice |-> 0, value |-> <<>>, cursor |-> 0, fired |-> 0]

\* No event yet.  op is the method the last event called, assigned whether
\* it assigned the choice or edited the text, told whether it called
\* setting_changed, of which notices counts the calls.
NoEvent == [count |-> 0, op |-> "init", assigned |-> FALSE, told |-> FALSE, notices |-> 0]

VARIABLES
    calls,           \* the number of calls the host has made
    kind,            \* the type of each constructed module object, NotBuilt before
    modules,         \* Synth.modules, as the sequence in which the set is iterated
    connection,      \* Input.connection of every Input
    connections,     \* Output.connections of every Output
    value,           \* Output.value of every Output
    error,           \* Module.error of every module
    current_values,  \* Module.current_values of every module: a dict or None
    ret,             \* what the last call did: its name, the exception that left
                     \* it, and for step / run the record of the pass
    repeat_counter,  \* the RepeatCounter of window()
    asked,           \* the queries made of repeat_counter so far
    widgets,         \* the setting widgets of a VisualModule
    heard,           \* the events handed to the widgets so far
    engines          \* the Synth objects: made counts them, of is Module.synth
                     \* of every module (0 before it is constructed), on the
                     \* Synth the last call was made on

vars ==
    <<calls, kind, modules, connection, connections, value, error, current_values, ret,
      repeat_counter, asked, widgets, heard, engines>>

\* What the calls on the Synth and its modules leave alone.
beside == <<repeat_counter, asked, widgets, heard>>

Built(m) == kind[m] # NotBuilt
HasIn(p) == Built(p[1]) /\ p[2] \in inputs(kind[p[1]])
HasOut(q) == Built(q[1]) /\ q[2] \in Range(outputs(kind[q[1]]))

\* The record of a call on module m that is no step: nothing evaluated.
Plain(op, m, raised) ==
    [op |-> op, m |-> m, raised |-> raised, n |-> 0, t_from |-> 0, t_to |-> 0,
     nsteps |-> 0, nevals |-> 0, times |-> <<>>,
     pre |-> [q \in OutPorts |-> None], bound |-> {}, evaled |-> <<>>,
     failed |-> {}]

\* Module.current_values = {} of the class, and the None invoke returns.
NoValues == [tag |-> "dict", items |-> <<>>]
Nothing == [tag |-> "None", items |-> <<>>]

InitSynth ==
    /\ calls = 0
    /\ kind = [m \in ModIds |-> NotBuilt]
    /\ modules = <<>>
    /\ connection = [p \in InPorts |-> NoPort]
    /\ connections = [q \in OutPorts |-> {}]
    /\ value = [q \in OutPorts |-> None]
    /\ error = [m \in ModIds |-> NoError]
    /\ current_values = [m \in ModIds |-> NoValues]
    /\ ret = Plain("init", 0, NoRaise)
    /\ engines = [made |-> 1, on |-> 1, of |-> [m \in ModIds |-> 0]]

\* A Synth driven by its host directly: the RepeatCounter stays unused.
Init ==
    /\ InitSynth
    /\ repeat_counter = RepeatCounter(0)
    /\ asked = NoQuery
    /\ widgets = NewWidgets
    /\ heard = NoEvent

(***************************************************************************)
(* Connection graph.  g is [connection, connections, raised].              *)
(***************************************************************************)
Graph == [connection |-> connection, connections |-> connections, raised |-> NoRaise]

\* connect_from taking a name it does not know for a new entry.
connect_from_lenient(g, p, q) ==
    IF q[1] \notin ModIds THEN [g EXCEPT !.raised = "Exception"]
    ELSE [g EXCEPT !.connection[p] = q, !.connections[q] = @ \cup {p}]

\* Module.connect_from(input_name, other_module, output_name), p the Input
\* and q the Output of other_module.  The isinstance test comes first; the
\* assignment looks up other_module.outputs[output_name], then
\* self.inputs[input_name], a KeyError for a name that is not declared.
connect_from(g, p, q) ==
    IF q[1] \notin ModIds THEN [g EXCEPT !.raised = "Exception"]
    ELSE IF ~HasOut(q) \/ ~HasIn(p) THEN [g EXCEPT !.raised = "KeyError"]
    ELSE [g EXCEPT !.connection[p] = q, !.connections[q] = @ \cup {p}]

\* disconnect leaving the Input's connection as it was.
disconnect_half(g, p) ==
    IF ~HasIn(p) THEN [g EXCEPT !.raised = "KeyError"]
    ELSE IF g.connection[p] # NoPort
    THEN IF p \notin g.connections[g.connection[p]]
         THEN [g EXCEPT !.raised = "KeyError"]
         ELSE [g EXCEPT !.connections[g.connection[p]] = @ \ {p}]
    ELSE g

\* Module.disconnect(input_name): self.inputs[input_name] is a KeyError for
\* a name that is not declared; set.remove raises KeyError on a missing member.
disconnect(g, p) ==
    IF ~HasIn(p) THEN [g EXCEPT !.raised = "KeyError"]
    ELSE IF g.connection[p] # NoPort
    THEN IF p \notin g.connections[g.connection[p]]
         THEN [g EXCEPT !.raised = "KeyError"]
         ELSE [g EXCEPT !.connections[g.connection[p]] = @ \ {p},
                        !.connection[p] = NoPort]
    ELSE g

\* The inner loop of Module.destroy over the copy S of output.connections.
RECURSIVE destroy_connections(_, _)
destroy_connections(g, S) ==
    IF S = {} \/ g.raised # NoRaise THEN g
    ELSE LET c == CHOOSE c \in S : TRUE
         IN destroy_connections(disconnect(g, c), S \ {c})

\* Module.destroy: the loop over self.outputs.values(), from the i-th on.
RECURSIVE destroy(_, _, _)
destroy(g, m, i) ==
    IF i > Len(outputs(kind[m])) \/ g.raised # NoRaise THEN g
    ELSE destroy(destroy_connections(g, g.connections[<<m, outputs(kind[m])[i]>>]),
                 m, i + 1)

\* One more call of the host.
Called == calls < MaxCalls /\ calls' = calls + 1

\* s with every element kept.
Kept(s, i) == s

\* s with its element at position i taken out.
Without(s, i) == SubSeq(s, 1, i - 1) \o SubSeq(s, i + 1, Len(s))
\* s with m put in at position i.
Inserted(s, m, i) == SubSeq(s, 1, i - 1) \o <<m>> \o SubSeq(s, i, Len(s))
IndexOf(s, m) == CHOOSE i \in DOMAIN s : s[i] = m

\* Synth.create_module(module): construct the object and add it to the set.
\* A new member lands anywhere in the set's iteration order.
\* Called on Synth e, which Module.__init__ keeps as the synth of the module.
CreateModuleOn(e, m, k, pos) ==
    /\ Called
    /\ e \in 1..engines.made
    /\ ~Built(m)
    /\ \A x \in ModIds : x < m => Built(x)
    /\ pos \in 1..(Len(modules) + 1)
    /\ IF construct(k) # NoRaise
       THEN /\ ret' = Plain("create_module", m, construct(k))
            /\ engines' = [engines EXCEPT !.on = e]
            /\ UNCHANGED <<kind, modules>>
       ELSE /\ kind' = [kind EXCEPT ![m] = k]
            /\ modules' = Inserted(modules, m, pos)
            /\ ret' = Plain("create_module", m, NoRaise)
            /\ engines' = [engines EXCEPT !.on = e, !.of[m] = e]
    /\ UNCHANGED <<connection, connections, value, error, current_values>>
    /\ UNCHANGED beside

\* create_module called on the first Synth.
CreateModule(m, k, pos) == CreateModuleOn(1, m, k, pos)

\* Synth.remove_module(module)
RemoveModule(m) ==
    /\ Called
    /\ Built(m)
    /\ IF m \in Range(modules)
       THEN LET g == destroy(Graph, m, 1)
            IN /\ modules' = Without(modules, IndexOf(modules, m))
               /\ connection' = g.connection
               /\ connections' = g.connections
               /\ ret' = Plain("remove_module", m, g.raised)
       ELSE /\ UNCHANGED <<modules, connection, connections>>
            /\ ret' = Plain("remove_module", m, NoRaise)
    /\ UNCHANGED <<kind, value, error, current_values>>
    /\ UNCHANGED <<beside, engines>>

\* Module.connect_from called on the module of p with the name of p, the
\* module and the name of q being other_module and output_name.
ConnectFrom(p, q) ==
    /\ Called
    /\ Built(p[1])
    /\ q # Foreign => Built(q[1])
    /\ LET g == connect_from(Graph, p, q)
       IN /\ connection' = g.connection
          /\ connections' = g.connections
          /\ ret' = Plain("connect_from", p[1], g.raised)
    /\ UNCHANGED <<kind, modules, value, error, current_values>>
    /\ UNCHANGED <<beside, engines>>

\* Module.disconnect called on the module of p with the name of p.
Disconnect(p) ==
    /\ Called
    /\ Built(p[1])
    /\ LET g == disconnect(Graph, p)
       IN /\ connection' = g.connection
          /\ connections' = g.connections
          /\ ret' = Plain("disconnect", p[1], g.raised)
    /\ UNCHANGED <<kind, modules, value, error, current_values>>
    /\ UNCHANGED <<beside, engines>>

(***************************************************************************)
(* Evaluation.  s is the state a pass works on: the Output cells, the      *)
(* modules' error and current_values, the exception that left the call     *)
(* (raised), and the record of the pass: nsteps / nevals count the step    *)
(* calls and the invocations of f, times lists the t of every step, and    *)
(* for the last step pre holds the Output cells when it began, bound the   *)
(* <<Input, value>> pairs handed to f, evaled the modules whose f was      *)
(* called, failed those whose f raised.                                    *)
(***************************************************************************)
Pass(n, t_from, t_to) ==
    [value |-> value, error |-> error, current_values |-> current_values,
     raised |-> NoRaise, n |-> n, t_from |-> t_from, t_to |-> t_to,
     nsteps |-> 0, nevals |-> 0, times |-> <<>>,
     pre |-> [q \in OutPorts |-> None], bound |-> {}, evaled |-> <<>>,
     failed |-> {}]

\* The loop writing every Output of the module, None where the dict has no
\* item for it.
write_outputs_all(val, m, items, i) ==
    [value |-> [q \in OutPorts |->
                   IF q[1] # m \/ q[2] \notin Range(outputs(kind[m])) THEN val[q]
                   ELSE IF \E j \in DOMAIN items : items[j][1] = q[2]
                   THEN items[CHOOSE j \in DOMAIN items : items[j][1] = q[2]][2]
                   ELSE None],
     raised |-> NoRaise]

\* The loop at the end of Module.invoke: for output, value in outputs.items().
RECURSIVE write_outputs(_, _, _, _)
write_outputs(val, m, items, i) ==
    IF i > Len(items) THEN [value |-> val, raised |-> NoRaise]
    ELSE IF items[i][1] \notin Range(outputs(kind[m]))
         THEN [value |-> val, raised |-> "KeyError"]
         ELSE write_outputs([val EXCEPT ![<<m, items[i][1]>>] = items[i][2]],
                            m, items, i + 1)

\* Module.invoke(inputs, t): inputs maps the names of the connected Inputs.
invoke(s, m, ins, t) ==
    LET overall_inputs == [k \in inputs(kind[m]) |->
                              IF k \in DOMAIN ins THEN ins[k] ELSE default(kind[m], k)]
        r == f(kind[m], t, overall_inputs)
        seen == [s EXCEPT !.error[m] = NoError,
                          !.nevals = @ + 1,
                          !.evaled = Append(@, m),
                          !.bound = @ \cup {<<<<m, k>>, overall_inputs[k]>> :
                                              k \in inputs(kind[m])}]
    IN IF r.tag = "raise"
       THEN [seen EXCEPT !.error[m] = r.exc, !.failed = @ \cup {m}]
       ELSE IF r.tag = "None"
       THEN [seen EXCEPT !.raised = "AttributeError"]
       ELSE LET w == write_outputs(s.value, m, r.items, 1)
            IN [seen EXCEPT !.value = w.value, !.raised = w.raised]

\* gather reading the Output cells as they were when the step began.
gather_buffered(s, m) ==
    [k \in {k \in inputs(kind[m]) : connection[<<m, k>>] # NoPort} |->
        s.pre[connection[<<m, k>>]]]

\* The dict Synth.step builds for a module: the value of the source Output
\* of every connected Input.
gather(s, m) ==
    [k \in {k \in inputs(kind[m]) : connection[<<m, k>>] # NoPort} |->
        s.value[connection[<<m, k>>]]]

\* The loop of Synth.step over self.modules, from the i-th module on.
RECURSIVE step_from(_, _, _)
step_from(s, t, i) ==
    IF i > Len(modules) \/ s.raised # NoRaise THEN s
    ELSE LET m == modules[i]
             after == invoke(s, m, gather(s, m), t)
         IN step_from(IF after.raised = NoRaise
                      THEN [after EXCEPT !.current_values[m] = Nothing]
                      ELSE after,
                      t, i + 1)

\* step making its pass over the modules twice.
step_settled(s, t) ==
    step_from(step_from([s EXCEPT !.nsteps = @ + 1, !.times = Append(@, t),
                                  !.pre = s.value, !.bound = {}, !.evaled = <<>>,
                                  !.failed = {}],
                        t, 1),
              t, 1)

\* Synth.step(t), t a fraction.
step(s, t) ==
    step_from([s EXCEPT !.nsteps = @ + 1, !.times = Append(@, t),
                        !.pre = s.value, !.bound = {}, !.evaled = <<>>,
                        !.failed = {}],
              t, 1)

\* t_from + ((t_to/n)*i)
run_time(n, t_from, t_to, i) == <<t_from * n + t_to * i, n>>

\* The loop of Synth.run(n, t_from, t_to), from i on.
RECURSIVE run(_, _, _, _, _)
run(s, n, t_from, t_to, i) ==
    IF i >= n \/ s.raised # NoRaise THEN s
    ELSE run(step(s, run_time(n, t_from, t_to, i)), n, t_from, t_to, i + 1)

\* The record of a step or run call.
Outcome(op, s) ==
    [op |-> op, m |-> 0, raised |-> s.raised, n |-> s.n, t_from |-> s.t_from,
     t_to |-> s.t_to, nsteps |-> s.nsteps, nevals |-> s.nevals,
     times |-> s.times, pre |-> s.pre, bound |-> s.bound,
     evaled |-> s.evaled, failed |-> s.failed]

\* Synth.step(t) called by the host on Synth e.
StepOn(e, t) ==
    /\ Called
    /\ e \in 1..engines.made
    /\ LET s == step(Pass(1, t, t), <<t, 1>>)
       IN /\ value' = s.value
          /\ error' = s.error
          /\ current_values' = s.current_values
          /\ ret' = Outcome("step", s)
    /\ engines' = [engines EXCEPT !.on = e]
    /\ UNCHANGED <<kind, modules, connection, connections>>
    /\ UNCHANGED beside

\* step called on the first Synth.
Step(t) == StepOn(1, t)

\* Synth.run(n, t_from, t_to) called by the host.
Run(n, t_from, t_to) ==
    /\ Called
    /\ LET s == run(Pass(n, t_from, t_to), n, t_from, t_to, 0)
       IN /\ value' = s.value
          /\ error' = s.error
          /\ current_values' = s.current_values
          /\ ret' = Outcome("run", s)
    /\ UNCHANGED <<kind, modules, connection, connections>>
    /\ UNCHANGED <<beside, engines>>

\* connect_from and disconnect called with names the modules declare.
ConnectDeclared(p, q) == HasIn(p) /\ HasOut(q) /\ ConnectFrom(p, q)
DisconnectDeclared(p) == HasIn(p) /\ Disconnect(p)

Next ==
    \/ \E m \in Few, k \in Kinds, pos \in Few : CreateModule(m, k, pos)
    \/ \E m \in ModIds : RemoveModule(m)
    \/ \E p \in InPorts, q \in OutPorts : ConnectDeclared(p, q)
    \/ \E p \in InPorts : DisconnectDeclared(p)
    \/ \E t \in StepTimes : Step(t)
    \/ \E n \in 0..MaxN, iv \in Intervals : Run(n, iv[1], iv[2])

Spec == Init /\ [][Next]_vars

\* The host also making calls that are refused: a module type that cannot be
\* constructed, an other_module that is no Module, a name that is not declared.
NextAnyCall ==
    \/ \E m \in Few, k \in Kinds \cup Faulty, pos \in Few :
          CreateModule(m, k, pos)
    \/ \E m \in ModIds : RemoveModule(m)
    \/ \E p \in InPorts, q \in OutPorts \cup {Foreign} : ConnectFrom(p, q)
    \/ \E p \in InPorts : Disconnect(p)
    \/ \E t \in StepTimes : Step(t)

SpecAnyCall == Init /\ [][NextAnyCall]_vars

\* The host stepping a graph that holds a module with two Outputs.
NextPart ==
    \/ \E m \in Few, k \in {"Part", "Neg"}, pos \in Few :
          CreateModule(m, k, pos)
    \/ \E p \in InPorts, q \in OutPorts : ConnectDeclared(p, q)
    \/ \E p \in InPorts : DisconnectDeclared(p)
    \/ \E t \in StepTimes : Step(t)

SpecPart == Init /\ [][NextPart]_vars

\* The host building and stepping a graph of up to MaxModules modules, one
\* of which may raise and one of which may return no dict.
NextThree ==
    \/ \E m \in ModIds, k \in {"Src", "Neg", "Bare"}, pos \in ModIds :
          CreateModule(m, k, pos)
    \/ \E p \in InPorts, q \in OutPorts : ConnectDeclared(p, q)
    \/ \E t \in StepTimes : Step(t)

SpecThree == Init /\ [][NextThree]_vars

(***************************************************************************)
(* More than one Synth.  modules is an attribute of the class Synth: every *)
(* Synth object reads and changes the one set.                             *)
(***************************************************************************)
Synths == 1..MaxSynths

\* self.modules of Synth e.
modules_of(e) == modules

\* Synth(): __init__ keeps the rate and nothing more.
NewSynth ==
    /\ Called
    /\ engines.made < MaxSynths
    /\ engines' = [engines EXCEPT !.made = @ + 1, !.on = engines.made + 1]
    /\ ret' = Plain("Synth", 0, NoRaise)
    /\ UNCHANGED <<kind, modules, connection, connections, value, error,
                   current_values>>
    /\ UNCHANGED beside

NextSynths ==
    \/ NewSynth
    \/ \E e \in Synths, m \in Few, k \in Kinds, pos \in Few :
          CreateModuleOn(e, m, k, pos)
    \/ \E e \in Synths, t \in StepTimes : StepOn(e, t)

SpecSynths == Init /\ [][NextSynths]_vars

(***************************************************************************)
(* The RepeatCounter and the loop of window() that asks it how many steps  *)
(* the Synth has to make.                                                  *)
(***************************************************************************)
\* int(x) of the fraction num / den, den > 0: what follows the point is cut off.
int(num, den) == IF num >= 0 THEN num \div den ELSE -((-num) \div den)

\* repeats leaving the attribute bound to itself.
repeats_kept(c, t) ==
    [counter |-> [c EXCEPT !.t_last_repeat = t], out |-> 0]

\* RepeatCounter.repeats(t): the method the attribute names at first.
repeats(c, t) ==
    [counter |-> [c EXCEPT !.t_last_repeat = t, !.repeats = "real_repeats"],
     out |-> 0]

\* real_repeats taking a rate below zero by its size.
real_repeats_sized(c, t) ==
    IF c.rate # 0
    THEN LET rate == IF c.rate > 0 THEN c.rate ELSE -c.rate
             delta_t == float_sub(t, c.t_last_repeat)
             repetitions == trunc(float_mul(delta_t, rate))
         IN [counter |-> [c EXCEPT !.t_last_repeat =
                                       float_add(@, true_div(repetitions, rate))],
             out |-> repetitions]
    ELSE [counter |-> c, out |-> 0]

\* RepeatCounter.real_repeats(t), t a float.
real_repeats(c, t) ==
    IF c.rate > 0
    THEN LET delta_t == float_sub(t, c.t_last_repeat)
             repetitions == trunc(float_mul(delta_t, c.rate))
         IN [counter |-> [c EXCEPT !.t_last_repeat =
                                       float_add(@, true_div(repetitions, c.rate))],
             out |-> repetitions]
    ELSE [counter |-> c, out |-> 0]

\* window() has made its RepeatCounter from the rate of the Synth.
InitClock ==
    /\ InitSynth
    /\ repeat_counter \in {RepeatCounter(rate) : rate \in Rates}
    /\ asked = NoQuery
    /\ widgets = NewWidgets
    /\ heard = NoEvent

\* The body of the loop of window() at the time of t parts:
\* synth.run(repeat_counter.repeats(t), t, 1/framerate), a frame one part long.
Tick(t) ==
    /\ asked.count < MaxQueries
    /\ \E r \in {IF repeat_counter.repeats = "repeats"
                  THEN repeats(repeat_counter, Time(t))
                  ELSE real_repeats(repeat_counter, Time(t))} :
       LET s == run(Pass(r.out, t, 1), r.out, t, 1, 0)
       IN /\ repeat_counter' = r.counter
          /\ asked' = [count |-> asked.count + 1, t |-> t, out |-> r.out,
                       before |-> repeat_counter.t_last_repeat,
                       first |-> IF asked.count = 0 THEN t ELSE asked.first,
                       total |-> asked.total + r.out,
                       rising |-> asked.rising /\ (asked.count = 0 \/ t >= asked.t),
                       steps |-> asked.steps + s.nsteps]
          /\ value' = s.value
          /\ error' = s.error
          /\ current_values' = s.current_values
          /\ ret' = Outcome("run", s)
    /\ UNCHANGED <<calls, kind, modules, connection, connections, widgets, heard,
                   engines>>

NextClock == \E t \in Nows : Tick(t)

SpecClock == InitClock /\ [][NextClock]_vars

(***************************************************************************)
(* The setting widgets.  Each method gives the widgets it leaves, whether  *)
(* it assigned the choice or edited the text (assigned), and whether it    *)
(* called self.module.setting_changed() (told).                            *)
(***************************************************************************)
\* The slices s[:k] and s[k:] of Python, k below 0 counting from the end.
Upto(s, k) ==
    IF k >= 0
    THEN SubSeq(s, 1, IF k < Len(s) THEN k ELSE Len(s))
    ELSE SubSeq(s, 1, IF Len(s) + k > 0 THEN Len(s) + k ELSE 0)
From(s, k) == SubSeq(s, (IF k < Len(s) THEN k ELSE Len(s)) + 1, Len(s))

\* VisualEnumSetting.menu_click(pos), pos measured from the corner (x, y).
menu_click(w, pos) ==
    IF pos[1] > 0 /\ pos[1] < Width
    THEN LET index == int(pos[2], 20)
         IN IF index >= 0 /\ index < Len(Options)
            THEN [widgets |-> [w EXCEPT !.choice = index], assigned |-> TRUE,
                  told |-> TRUE]
            ELSE [widgets |-> w, assigned |-> FALSE, told |-> FALSE]
    ELSE [widgets |-> w, assigned |-> FALSE, told |-> FALSE]

\* The branches of keypress, before its last statement.
keyed(w, keyevent) ==
    IF keyevent.key = "LEFT"
    THEN IF w.cursor > 0 THEN [w EXCEPT !.cursor = @ - 1] ELSE w
    ELSE IF keyevent.key = "RIGHT"
    THEN IF w.cursor < Len(w.value) THEN [w EXCEPT !.cursor = @ + 1] ELSE w
    ELSE IF keyevent.key = "BACKSPACE"
    THEN [w EXCEPT !.value = Upto(w.value, w.cursor - 1) \o From(w.value, w.cursor),
                   !.cursor = IF w.cursor > 0 THEN @ - 1 ELSE @]
    ELSE IF keyevent.key = "DELETE"
    THEN [w EXCEPT !.value = Upto(w.value, w.cursor) \o From(w.value, w.cursor + 1)]
    ELSE [w EXCEPT !.value = Upto(w.value, w.cursor) \o keyevent.unicode
                                \o From(w.value, w.cursor),
                   !.cursor = @ + Len(keyevent.unicode)]

\* Whether the branch of keypress assigns self.value: LEFT and RIGHT move
\* the cursor at most, every other key assigns the value, also to what it was.
edits(keyevent) == keyevent.key \notin {"LEFT", "RIGHT"}

\* keypress calling setting_changed only when the value is another one.
keypress_on_change(w, keyevent) ==
    [widgets |-> keyed(w, keyevent), assigned |-> edits(keyevent),
     told |-> keyed(w, keyevent).value # w.value]

\* VisualTextSetting.keypress(keyevent)
keypress(w, keyevent) ==
    [widgets |-> keyed(w, keyevent), assigned |-> edits(keyevent), told |-> TRUE]

\* VisualTextSetting.selected(): the cursor goes to the end of the value;
\* is_selected, which draw alone reads, is not kept.
selected(w) ==
    [widgets |-> [w EXCEPT !.cursor = Len(w.value)], assigned |-> FALSE,
     told |-> FALSE]

\* VisualTriggerSetting.click(): self.action(self.module) and nothing more.
click(w) ==
    [widgets |-> [w EXCEPT !.fired = @ + 1], assigned |-> FALSE, told |-> FALSE]

\* The record of an event that called method op with result r.
Event(op, r) ==
    [count |-> heard.count + 1, op |-> op, assigned |-> r.assigned,
     told |-> r.told, notices |-> heard.notices + (IF r.told THEN 1 ELSE 0)]

\* What the events of the widgets leave alone.
rest ==
    <<calls, kind, modules, connection, connections, value, error, current_values, ret,
      repeat_counter, asked, engines>>

MenuClick(pos) ==
    /\ heard.count < MaxEvents
    /\ widgets' = menu_click(widgets, pos).widgets
    /\ heard' = Event("menu_click", menu_click(widgets, pos))
    /\ UNCHANGED rest

Keypress(keyevent) ==
    /\ heard.count < MaxEvents
    /\ widgets' = keypress(widgets, keyevent).widgets
    /\ heard' = Event("keypress", keypress(widgets, keyevent))
    /\ UNCHANGED rest

\* VisualSynth.mouse calls selected() on the text setting that was clicked.
\* It is no event handed to the widget: heard stays as it is.
Selected ==
    /\ widgets' = selected(widgets).widgets
    /\ UNCHANGED heard
    /\ UNCHANGED rest

Click ==
    /\ heard.count < MaxEvents
    /\ widgets' = click(widgets).widgets
    /\ heard' = Event("click", click(widgets))
    /\ UNCHANGED rest

NextWidgets ==
    \/ \E pos \in Clicks : MenuClick(pos)
    \/ \E keyevent \in Keys : Keypress(keyevent)
    \/ Selected
    \/ Click

SpecWidgets == Init /\ [][NextWidgets]_vars

(***************************************************************************)
(* Properties.                                                             *)
(***************************************************************************)
Live == Range(modules)
Removed(m) == Built(m) /\ m \notin Live
\* The last call was a step, or a run that made at least one step.
IsPass == ret.op \in {"step", "run"} /\ ret.nsteps > 0
\* The position of module m in the pass, 0 when it is not live.
PosOf(m) == IF m \in Live THEN IndexOf(modules, m) ELSE 0
\* The values handed to f for Input p in the last step.
BoundTo(p) == {e[2] : e \in {e \in ret.bound : e[1] = p}}
\* The overall_inputs of module m in the last step.
BoundOf(m) == [k \in inputs(kind[m]) |-> CHOOSE v \in BoundTo(<<m, k>>) : TRUE]
\* The items f returned for module m in the last step.
Produced(m) == f(kind[m], ret.times[Len(ret.times)], BoundOf(m))

\* C1: for every Output o, o.connections is exactly the set of Inputs whose
\* connection is o, after any sequence of create_module, connect_from,
\* disconnect and remove_module.
C1_BackSetsAgree ==
    \A q \in OutPorts : connections[q] = {p \in InPorts : connection[p] = q}

\* C2: no Input of a live module has as its source an Output of a module
\* that has been removed.
C2_NoDanglingSource ==
    \A p \in InPorts :
        (p[1] \in Live /\ connection[p] # NoPort) => ~Removed(connection[p][1])

\* C3: when remove_module(M) has returned, no Output of a live module holds
\* an Input of M in its back-set.
C3_NoBackRefToRemoved ==
    (ret.op = "remove_module" /\ Removed(ret.m)) =>
        \A q \in OutPorts : q[1] \in Live => \A p \in connections[q] : p[1] # ret.m

\* C4: when the f of a module raises in a step, the Output cells of that
\* module keep the values they had when the step began, every other live
\* module is evaluated in the step all the same, and every module
\* evaluated in the step other than the failing ones has the values its f
\* returned in its cells.
C4_FailureIsolated ==
    IsPass =>
        \A m \in ret.failed :
            /\ \A o \in Range(outputs(kind[m])) : value[<<m, o>>] = ret.pre[<<m, o>>]
            /\ Live \ {m} \subseteq Range(ret.evaled)
            /\ \A x \in Range(ret.evaled) \ ret.failed :
                   \A i \in DOMAIN Produced(x).items :
                       Produced(x).items[i][1] \in Range(outputs(kind[x]))
                           => value[<<x, Produced(x).items[i][1]>>]
                                  = Produced(x).items[i][2]

\* C5: step and run return normally whatever the f of a module does.
C5_StepReturnsNormally ==
    ret.op \in {"step", "run"} => ret.raised = NoRaise

\* C6: an Input whose source Output is owned by the module itself, or by a
\* module evaluated later in the pass, is bound in a step to the value the
\* Output held when the step began.
C6_StaleRead ==
    IsPass =>
        \A m \in Range(ret.evaled) : \A k \in inputs(kind[m]) :
            LET q == connection[<<m, k>>]
            IN (q # NoPort /\ q[1] \in Live /\ PosOf(q[1]) >= PosOf(m))
                   => BoundTo(<<m, k>>) = {ret.pre[q]}

\* A module reading its own Output was bound to the value of the step
\* before, and has written another value since.
C6_Witness ==
    /\ IsPass
    /\ \E m \in Range(ret.evaled) :
          /\ kind[m] = "Neg"
          /\ connection[<<m, "a">>] = <<m, "o">>
          /\ ret.pre[<<m, "o">>] # None
          /\ BoundTo(<<m, "a">>) = {ret.pre[<<m, "o">>]}
          /\ value[<<m, "o">>] # ret.pre[<<m, "o">>]

\* C7: a single module whose Output feeds its own Input has, after every
\* step, no error and a value of the declared type in its Output.
C7_SelfFeedbackSteps ==
    (/\ IsPass
     /\ Len(modules) = 1
     /\ kind[modules[1]] = "Neg"
     /\ connection[<<modules[1], "a">>] = <<modules[1], "o">>)
        => /\ error[modules[1]] = NoError
           /\ value[<<modules[1], "o">>] \in {0, 1}

\* C8: an Input of B whose source is an Output of A, A evaluated before B
\* and A's f returning a value for that Output, is bound in that step to the
\* value A returned in the same step.
C8_FreshRead ==
    IsPass =>
        \A A \in Range(ret.evaled), B \in Range(ret.evaled) :
            \A k \in inputs(kind[B]) :
                LET q == connection[<<B, k>>]
                IN (PosOf(A) < PosOf(B) /\ q # NoPort /\ q[1] = A
                    /\ A \notin ret.failed)
                       => \A i \in DOMAIN Produced(A).items :
                              Produced(A).items[i][1] = q[2]
                                  => BoundTo(<<B, k>>) = {Produced(A).items[i][2]}

\* The very first step of a chain: B was bound to the value A had just
\* computed, which is neither None nor the default of the Input.
C8_Witness ==
    /\ ret.op = "step"
    /\ \A q \in OutPorts : ret.pre[q] = None
    /\ \E A \in Live, B \in Live :
          /\ kind[A] = "Src" /\ kind[B] = "Neg"
          /\ PosOf(A) < PosOf(B)
          /\ connection[<<B, "a">>] = <<A, "o">>
          /\ BoundTo(<<B, "a">>) = {1}
          /\ default(kind[B], "a") # 1
          /\ value[<<B, "o">>] = 0

\* C9: a run(n, t_from, t_to) makes exactly n calls of step, each one
\* calling f once for every live module, and run(0, ...) makes none and
\* changes no Output value, error or connection.
C9_RunPerformsNSteps ==
    [][ret'.op = "run" =>
          /\ ret'.nsteps = ret'.n
          /\ ret'.nevals = ret'.n * Len(modules)
          /\ ret'.n > 0 => ret'.evaled = modules
          /\ ret'.n = 0 =>
                 /\ ret'.raised = NoRaise
                 /\ UNCHANGED <<value, error, current_values, connection,
                                connections, modules>>]_vars

\* C10: the i-th step of run(n, t_from, t_to), t_from <= t_to, is handed the
\* time t_from + i*(t_to - t_from)/n, which lies in [t_from, t_to).
C10_RunTimesSubdivide ==
    (ret.op = "run" /\ ret.t_from <= ret.t_to) =>
        \A j \in DOMAIN ret.times :
            LET num == ret.times[j][1]
                den == ret.times[j][2]
            IN /\ num * ret.n = (ret.t_from * ret.n + (j - 1) * (ret.t_to - ret.t_from)) * den
               /\ ret.t_from * den <= num
               /\ num < ret.t_to * den
(***************************************************************************)
(* The RepeatCounter, under SpecClock.                                     *)
(***************************************************************************)
\* The result real_repeats owes the last query: int((t - t_last_repeat) * rate).
Owed ==
    trunc(float_mul(float_sub(Time(asked.t), asked.before), repeat_counter.rate))

\* C11: the first query of a RepeatCounter returns 0 whatever its time and
\* the rate, and leaves that time in t_last_repeat; no later query is
\* treated so: it gets the count real_repeats computes.
C11_FirstQueryPrimes ==
    /\ asked.count = 1 =>
           /\ asked.out = 0
           /\ repeat_counter.t_last_repeat = Time(asked.t)
    /\ asked.count > 1 =>
           asked.out = IF repeat_counter.rate > 0 THEN Owed ELSE 0

\* A first query made at a time after 0, at a rate above 0.
C11_Witness ==
    /\ asked.count = 1
    /\ asked.t > 0
    /\ repeat_counter.rate > 0
    /\ asked.out = 0

\* floor(E * R) at the last query, E the time from the first query to the
\* last one: first of the times the queries were made at, first / Scale and
\* t / Scale seconds, then of the two floats handed to the RepeatCounter.
FloorOfElapsed ==
    ((asked.t - asked.first) * repeat_counter.rate) \div Scale
FloorOfElapsedFloats ==
    ToInt(ShiftRight(MulSmall(SubN(Time(asked.t).mag, Time(asked.first).mag),
                              repeat_counter.rate),
                     FracBits))

\* C12: at a rate R above 0, when no query comes with an earlier time than
\* the one before it, the results add up to floor(E * R), E the time from
\* the first query to the last one (read either way), and the Synth has
\* made as many steps.
C12_TotalIsFloorOfElapsed ==
    (asked.count >= 1 /\ repeat_counter.rate > 0 /\ asked.rising) =>
        /\ asked.total \in {FloorOfElapsed, FloorOfElapsedFloats}
        /\ asked.steps = asked.total

\* C13: at a rate of 0 or below every query returns 0, and the Synth makes
\* no step.
C13_NoRateNoSteps ==
    repeat_counter.rate <= 0 =>
        /\ asked.out = 0
        /\ asked.total = 0
        /\ asked.steps = 0

\* A query after the first, at a rate below 0, a second after t_last_repeat.
C13_Witness ==
    /\ repeat_counter.rate < 0
    /\ asked.count > 1
    /\ float_cmp(float_sub(Time(asked.t), asked.before), Time(Scale)) >= 0
    /\ asked.out = 0

\* C20: at a rate above 0 every query after the first returns
\* floor((t - t_last_repeat) * rate) and moves t_last_repeat on by that
\* count over the rate, also when t is before t_last_repeat.
C20_LaterQueryFloors ==
    (asked.count > 1 /\ repeat_counter.rate > 0) =>
        /\ asked.out = floor(float_mul(float_sub(Time(asked.t), asked.before),
                                       repeat_counter.rate))
        /\ repeat_counter.t_last_repeat =
               float_add(asked.before, true_div(asked.out, repeat_counter.rate))

(***************************************************************************)
(* Refused calls, under SpecAnyCall.                                       *)
(***************************************************************************)
\* C14: create_module of a type with an Input or Setting whose default is
\* not of the declared type fails, and the failed call leaves the live set,
\* every connection and every Output value as they were.
C14_FaultyTypeIsRefused ==
    [][ret'.op = "create_module" =>
          \A m \in Few, k \in Faulty, pos \in Few :
              CreateModule(m, k, pos) =>
                  /\ ret'.raised # NoRaise
                  /\ UNCHANGED <<kind, modules, connection, connections, value>>]_vars

\* A type with a mistyped Input default was refused by a Synth that has a
\* live module, a connection and an Output value.
C14_Witness ==
    /\ ret.op = "create_module"
    /\ ret.raised = "Exception"
    /\ modules # <<>>
    /\ \E p \in InPorts : connection[p] # NoPort
    /\ \E q \in OutPorts : value[q] # None

\* C15: a connect_from whose other_module is not in the live set, being no
\* module of this Synth or a removed one, raises, and leaves every
\* Input.connection and every Output.connections as it was.
C15_SourceMustBeLive ==
    [][ret'.op = "connect_from" =>
          \A p \in InPorts, q \in OutPorts \cup {Foreign} :
              (ConnectFrom(p, q) /\ q[1] \notin Live) =>
                  /\ ret'.raised # NoRaise
                  /\ UNCHANGED <<connection, connections>>]_vars

\* C16: a connect_from or disconnect with the name of an Input or Output
\* the module did not declare raises, and leaves every Input.connection and
\* every Output.connections as it was.
C16_UnknownNameIsRefused ==
    [][/\ ret'.op = "connect_from" =>
             \A p \in InPorts, q \in OutPorts :
                 (/\ p[1] = ret'.m
                  /\ ~HasIn(p) \/ ~HasOut(q)
                  /\ ConnectFrom(p, q)) =>
                     /\ ret'.raised # NoRaise
                     /\ UNCHANGED <<connection, connections>>
       /\ ret'.op = "disconnect" =>
             \A p \in InPorts :
                 (~HasIn(p) /\ Disconnect(p)) =>
                     /\ ret'.raised # NoRaise
                     /\ UNCHANGED <<connection, connections>>]_vars

\* A connect_from with a name that is not declared was refused by a Synth
\* that has a connection.
C16_Witness ==
    /\ ret.op = "connect_from"
    /\ ret.raised = "KeyError"
    /\ \E p \in InPorts : connection[p] # NoPort

\* C17: the connection of an Input changes only by a connect_from or a
\* disconnect on that Input, or by remove_module of the module whose Output
\* it is reading from.
C17_NoUnrelatedDrop ==
    [][\A p \in InPorts :
          connection'[p] # connection[p] =>
              \/ ret'.op \in {"connect_from", "disconnect"} /\ ret'.m = p[1]
              \/ ret'.op = "remove_module" /\ connection[p][1] = ret'.m]_vars

\* C19: after a step in which f of a module returned its outputs, the
\* module's current_values is the dict f returned; after a step in which f
\* raised, current_values is what it was before the step.
C19_CurrentValuesFollow ==
    [][(ret'.op = "step" /\ ret'.raised = NoRaise) =>
          \A m \in Live :
              current_values'[m] =
                  IF m \in ret'.failed
                  THEN current_values[m]
                  ELSE [tag |-> "dict", items |-> Produced(m)'.items]]_vars

(***************************************************************************)
(* The setting widgets, under SpecWidgets.                                 *)
(***************************************************************************)
\* C18 as stated: whatever the host does to a setting, choosing an option
\* of an enum setting, a keypress on a text setting or the click of a
\* trigger, setting_changed of the module has been called when the method
\* returns.
C18_EveryMutationIsTold ==
    (\/ heard.op = "menu_click" /\ heard.assigned
     \/ heard.op = "keypress"
     \/ heard.op = "click") => heard.told

\* C18, amended: a menu_click that assigns the choice and every keypress on
\* a text setting have called setting_changed once when they return; the
\* click of a trigger calls its action and does not call setting_changed.
C18_ChoiceAndEditAreTold ==
    /\ (heard.op = "menu_click" /\ heard.assigned) => heard.told
    /\ heard.op = "keypress" => heard.told
    /\ heard.op = "click" => ~heard.told
    /\ heard.notices <= heard.count

\* A keypress that moved the cursor back in a text typed before.
C18_Witness ==
    /\ heard.op = "keypress"
    /\ heard.told
    /\ widgets.value # <<>>
    /\ widgets.cursor < Len(widgets.value)
    /\ heard.notices = heard.count

(***************************************************************************)
(* Steps and removals, under Spec.                                         *)
(***************************************************************************)
\* C21: after every step the error of a live module is set exactly when
\* the f of that module raised in that step.
C21_ErrorIffFailed ==
    ret.op = "step" =>
        \A m \in Live : error[m] # NoError <=> m \in ret.failed

\* The names of the dict f returned for module m in the last step.
Named(m) == {Produced(m).items[i][1] : i \in DOMAIN Produced(m).items}

\* C22: a step changes an Output cell only when the f of the module of
\* that cell was called in the step and returned a dict that names it; the
\* connection of every Input, the connections of every Output and the
\* setting widgets are as they were.
C22_OnlyNamedOutputsWritten ==
    [][ret'.op = "step" =>
          /\ \A q \in OutPorts :
                 value'[q] # value[q] =>
                     /\ q[1] \in Range(ret'.evaled) \ ret'.failed
                     /\ q[2] \in Named(q[1])'
          /\ UNCHANGED <<connection, connections, widgets>>]_vars

\* A step in which a module with a value in both its Outputs returned a
\* dict naming one of them: that cell changed, the other one kept its value.
C22_Witness ==
    /\ ret.op = "step"
    /\ \E m \in Range(ret.evaled) :
          /\ kind[m] = "Part"
          /\ Named(m) = {"o"}
          /\ ret.pre[<<m, "o">>] = 1
          /\ value[<<m, "o">>] = 0
          /\ value[<<m, "p">>] = 1

\* C23: a module is out of the live set once remove_module was called on
\* it; no step or run after that calls its f or changes one of its Output
\* cells; and remove_module of a module that is not in the live set changes
\* nothing.
C23_RemovedStaysOut ==
    [][/\ ret'.op = "remove_module" =>
             /\ ret'.m \notin Live'
             /\ \A m \in ModIds :
                    (RemoveModule(m) /\ m \notin Live) =>
                        UNCHANGED <<modules, connection, connections, value, error,
                                    current_values>>
       /\ ret'.op \in {"step", "run"} =>
             /\ Range(ret'.evaled) \subseteq Live
             /\ ret'.nevals <= ret'.nsteps * Len(modules)
             /\ \A q \in OutPorts : q[1] \notin Live => value'[q] = value[q]]_vars

\* A step that called f while a removed module held a value in its cell.
C23_Witness ==
    /\ ret.op = "step"
    /\ ret.nevals > 0
    /\ \E m \in ModIds : Removed(m) /\ value[<<m, "o">>] # None

\* C24: every step calls the f of every live module once, in the order
\* in which the set of live modules is iterated, and that order changes
\* only by create_module and remove_module: two steps with neither of
\* them in between evaluate the same modules in the same order.
C24_StableOrder ==
    [][/\ ret'.op = "step" => ret'.evaled = modules
       /\ modules' # modules => ret'.op \in {"create_module", "remove_module"}]_vars

(***************************************************************************)
(* More than one Synth, under SpecSynths.                                  *)
(***************************************************************************)
\* C25: the set of live modules of a Synth is empty when the Synth has
\* just been constructed, holds no module that was created through
\* another Synth, and a step of a Synth calls the f of its own modules only.
C25_OwnLiveSet ==
    /\ ret.op = "Synth" => modules_of(engines.on) = <<>>
    /\ \A e \in 1..engines.made :
          \A m \in Range(modules_of(e)) : engines.of[m] = e
    /\ ret.op = "step" =>
          \A m \in Range(ret.evaled) : engines.of[m] = engines.on

(***************************************************************************)
(* Back-references, under Spec.                                            *)
(***************************************************************************)
\* C26: in every state, an Input whose connection is not None is a member
\* of the connections of the Output it names, and so no disconnect and no
\* remove_module (whose destroy calls disconnect) ends with the KeyError of
\* set.remove.
C26_BackRefPresent ==
    /\ \A p \in InPorts :
          connection[p] # NoPort => p \in connections[connection[p]]
    /\ ret.op \in {"disconnect", "remove_module"} => ret.raised = NoRaise

\* remove_module has returned, and the connections of the removed module's
\* Output held an Input that was not reading from it: destroy disconnected
\* that Input from whatever it read from and the entry is still there.
C26_Witness ==
    /\ ret.op = "remove_module"
    /\ Removed(ret.m)
    /\ \E p \in InPorts :
          /\ connection[p] = NoPort
          /\ p \in connections[<<ret.m, "o">>]

(***************************************************************************)
(* The RepeatCounter between queries, under SpecClock.                     *)
(***************************************************************************)
\* What is left between t_last_repeat and the time of the last query,
\* times the rate, in parts of 2^-FracBits of a step; 0 when t_last_repeat
\* is the later one.
Carried ==
    IF float_cmp(repeat_counter.t_last_repeat, Time(asked.t)) >= 0 THEN <<>>
    ELSE MulSmall(float_sub(Time(asked.t), repeat_counter.t_last_repeat).mag,
                  repeat_counter.rate)

\* C27: at a rate above 0, when no query comes with an earlier time than
\* the one before it, after every query t_last_repeat is not after the t
\* of the query, less than one step's time is left between the two, the
\* result is not below 0, and t_last_repeat is not before the value the
\* query found.
C27_CursorTrailsNow ==
    (asked.count >= 1 /\ repeat_counter.rate > 0 /\ asked.rising) =>
        /\ float_cmp(repeat_counter.t_last_repeat, Time(asked.t)) <= 0
        /\ CmpN(Carried, Time(Scale).mag) < 0
        /\ asked.out >= 0
        /\ float_cmp(repeat_counter.t_last_repeat, asked.before) >= 0

====
